---- MODULE Spec2Model ----
(***************************************************************************)
(* project2github: a directory is made a git working tree with committed   *)
(* content, a repository is created on the hosting service and the local   *)
(* history is pushed to it.  Three front ends wrap the same operations:    *)
(*   upload_to_github               (project2github.py, tool and CLI)      *)
(*   Project2GitHubMCP.create_repo  (server.py)                            *)
(*   handle_command                 (project2github_mcp.py, line protocol) *)
(* Every external call (a git subprocess, a hosting-API call) is recorded  *)
(* in the order it is attempted, with its outcome.                         *)
(***************************************************************************)
EXTENDS Integers, Sequences, FiniteSets

VARIABLES
    fs,      \* the target path: kind, and the git state of the directory
    remote,  \* names of the repositories that exist on the hosting service
    last,    \* the operation executed last: input, external calls, result
    stdin,   \* main: the input lines not yet read
    read,    \* main: the input lines read so far
    stdout,  \* main: the objects written so far, one per output line
    pc       \* main: "idle" (not running), "start", "read", "handle", "done"

mainVars == <<stdin, read, stdout, pc>>

vars == <<fs, remote, last, stdin, read, stdout, pc>>

\* ---------------------------------------------------------------- bounds
MaxCommits == 1

MaxLines == 3

\* ------------------------------------------------------ program constants
ParseError     == -32700
InvalidRequest == -32600
MethodNotFound == -32601
InvalidParams  == -32602
InternalError  == -32603
GitMissing     == -32000
GitFailed      == -32001
GithubFailed   == -32002

None == "None"

\* ------------------------------------------------------------ environment
\* How spawning the git executable goes: it runs, it is not on PATH
\* (FileNotFoundError) or it cannot be executed (PermissionError and other
\* OSError).
Spawns == {"ok", "notfound", "oserror"}

\* Outcome of the hosting API for a well-formed request with a good token.
Apis == {"ok", "fail_user", "fail_create"}

\* One environment of a run: how git spawns, whether `git --version` exits
\* zero, the exit status (TRUE = zero) of each later git command, the API.
DefaultEnv ==
    [spawn |-> "ok", version |-> TRUE, init |-> TRUE, status |-> TRUE,
     add |-> TRUE, commit |-> TRUE, remote_add |-> TRUE, push |-> TRUE,
     api |-> "ok"]

\* The environments of a run differ only in the outcome of the calls the run
\* can make: a git that cannot be spawned or whose version query fails, ...
GitEnvs ==
    {[DefaultEnv EXCEPT !.spawn = "notfound"],
     [DefaultEnv EXCEPT !.spawn = "oserror"],
     [DefaultEnv EXCEPT !.version = FALSE]}

\* ... a failing init (run when d is no working tree), a failing status, or
\* the exit status of add and commit (run when d has pending changes), ...
PrepEnvs(d) ==
    IF d.kind # "dir" THEN {DefaultEnv}
    ELSE (IF d.isRepo THEN {} ELSE {[DefaultEnv EXCEPT !.init = FALSE]})
         \cup {[DefaultEnv EXCEPT !.status = FALSE]}
         \cup {[DefaultEnv EXCEPT !.add = a, !.commit = c] :
                 a, c \in IF d.dirty THEN BOOLEAN ELSE {TRUE}}

\* ... a failing API, or the exit status of remote add and push after it.
PubEnvs ==
    {[DefaultEnv EXCEPT !.api = "fail_user"],
     [DefaultEnv EXCEPT !.api = "fail_create"]}
    \cup {[DefaultEnv EXCEPT !.remote_add = r, !.push = p] : r, p \in BOOLEAN}

RunEnvs(d) ==
    IF d.kind = "missing" THEN {DefaultEnv} ELSE
    GitEnvs \cup
    {[p EXCEPT !.api = q.api, !.remote_add = q.remote_add, !.push = q.push] :
        p \in PrepEnvs(d), q \in PubEnvs}

\* The directory the empty path resolves to (the process's working
\* directory): an existing directory whose git state is not tracked.
Cwd == [kind |-> "dir", isRepo |-> TRUE, dirty |-> FALSE, commits |-> 1,
        origin |-> FALSE]

Call(cmd, out) == [cmd |-> cmd, out |-> out]

Cmds(calls) == {calls[i].cmd : i \in 1..Len(calls)}

\* subprocess.run(['git', ...], cwd=d): the exception raising before the
\* command's exit status exists, or "none".
SpawnError(d, e) ==
    IF d.kind = "file" THEN "NotADirectoryError"
    ELSE IF d.kind = "missing" THEN "FileNotFoundError"
    ELSE IF e.spawn = "notfound" THEN "FileNotFoundError"
    ELSE IF e.spawn = "oserror" THEN "PermissionError"
    ELSE "none"

Exit(ok) == IF ok THEN "zero" ELSE "nonzero"

\* The existence check is left out.
PathExistsUnchecked(d) == TRUE

\* Path(directory).exists() / os.path.exists(directory)
PathExists(d) == d.kind # "missing"

Exists(d) == Call("exists", IF d.kind = "missing" THEN "false" ELSE "true")

\* The answer of rev-parse is not used: git init runs on every call.
is_git_repo_Ignored(d) == FALSE

\* is_git_repo = result.returncode == 0, of `git rev-parse`
is_git_repo(d) == d.isRepo

\* status.stdout.strip(): the output of `git status --porcelain` is not
\* empty; a status that exits non-zero prints nothing on stdout.
HasChanges(d, e) == e.status /\ d.dirty

\* git commit: a zero exit records one more commit; the tree is clean after
\* it when the preceding `git add .` staged everything.
Committed(d, added, ok) ==
    IF ok THEN [d EXCEPT !.commits = @ + 1, !.dirty = IF added THEN FALSE ELSE @]
    ELSE d

\* ------------------------------------------- project2github.py operations
\* check_git_installed(): True when `git --version` runs and exits zero,
\* False on CalledProcessError and FileNotFoundError; any other exception
\* of the spawn propagates to the caller.
check_git_installed(e) ==
    IF e.spawn = "notfound"
    THEN [val |-> FALSE, raised |-> "none",
          calls |-> <<Call("version", "FileNotFoundError")>>]
    ELSE IF e.spawn = "oserror"
    THEN [val |-> FALSE, raised |-> "PermissionError",
          calls |-> <<Call("version", "PermissionError")>>]
    ELSE [val |-> e.version, raised |-> "none",
          calls |-> <<Call("version", Exit(e.version))>>]

\* init_git_repo(directory): rev-parse, init (check=True) when the directory
\* is no working tree, status, and add + commit (neither checked) when the
\* status output is not empty.  Only CalledProcessError is caught.
init_git_repo(d, e) ==
    LET se == SpawnError(d, e) IN
    IF se # "none"
    THEN [val |-> FALSE, raised |-> se, fs |-> d,
          calls |-> <<Call("rev_parse", se)>>]
    ELSE
      LET c1 == <<Call("rev_parse", Exit(d.isRepo))>>
          c2 == IF is_git_repo(d) THEN c1
                ELSE Append(c1, Call("init", Exit(e.init)))
      IN
      IF ~is_git_repo(d) /\ ~e.init
      THEN [val |-> FALSE, raised |-> "none", fs |-> d, calls |-> c2]
      ELSE
        LET d1 == [d EXCEPT !.isRepo = TRUE]
            c3 == Append(c2, Call("status", Exit(e.status)))
        IN
        IF HasChanges(d1, e)
        THEN [val |-> TRUE, raised |-> "none",
              fs |-> Committed(d1, e.add, e.commit),
              calls |-> c3 \o <<Call("add", Exit(e.add)),
                                Call("commit", Exit(e.commit))>>]
        ELSE [val |-> TRUE, raised |-> "none", fs |-> d1, calls |-> c3]

\* The hosting API: get_user fails without a good token, create_repo fails
\* for an empty or an already used name; both may fail for other reasons.
UserOk(token, e) == token = "good" /\ e.api # "fail_user"

CreateOk(name, rem, e) ==
    name \notin {"", "null"} /\ name \notin rem /\ e.api # "fail_create"

\* `git remote add origin <url>` exits zero in a working tree without origin.
RemoteAddOk(d, e) == d.isRepo /\ ~d.origin /\ e.remote_add

\* `git push -u origin master` exits zero only with an origin and a commit.
PushOk(d, e) == d.isRepo /\ d.origin /\ d.commits > 0 /\ e.push

\* create_github_repo(token, repo_name, directory, private): Github(token),
\* get_user, create_repo, then remote add and push, whose exit status is not
\* looked at.  Every exception is caught and gives False.
create_github_repo(token, repo_name, d, e, rem) ==
    LET c2 == <<Call("Github", "ok"),
                Call("get_user", IF UserOk(token, e) THEN "ok" ELSE "error")>>
    IN
    IF ~UserOk(token, e)
    THEN [val |-> FALSE, fs |-> d, remote |-> rem, calls |-> c2]
    ELSE IF ~CreateOk(repo_name, rem, e)
    THEN [val |-> FALSE, fs |-> d, remote |-> rem,
          calls |-> Append(c2, Call("create_repo", "error"))]
    ELSE
      LET c3   == Append(c2, Call("create_repo", "ok"))
          rem1 == rem \cup {repo_name}
          se   == SpawnError(d, e)
      IN
      IF se # "none"
      THEN [val |-> FALSE, fs |-> d, remote |-> rem1,
            calls |-> Append(c3, Call("remote_add", se))]
      ELSE
        LET d1 == IF RemoteAddOk(d, e) THEN [d EXCEPT !.origin = TRUE] ELSE d
        IN [val |-> TRUE, fs |-> d1, remote |-> rem1,
            calls |-> c3 \o <<Call("remote_add", Exit(RemoteAddOk(d, e))),
                              Call("push", Exit(PushOk(d1, e)))>>]

Fail(error) == [success |-> FALSE, error |-> error]

Success == [success |-> TRUE, error |-> "none"]

\* The value is compared with None instead of being tested for truth.
TruthyIsNotNone(v) == v \notin {None, "unset", "absent", "null"}

Truthy(v) == v \notin {None, "unset", "absent", "null", ""}

\* upload_to_github(ctx, directory, name, private): the token, then the
\* path, then git, the preparer and the publisher; an exception anywhere is
\* caught by the outer handler and gives a failure result.
upload_to_github(token, name, d, e, rem) ==
    IF ~Truthy(token)
    THEN [ret |-> Fail("no_token"), fs |-> d, remote |-> rem, calls |-> <<>>]
    ELSE
      LET c1 == <<Exists(d)>>
      IN
      IF ~PathExists(d)
      THEN [ret |-> Fail("no_directory"), fs |-> d, remote |-> rem, calls |-> c1]
      ELSE
        LET repo_name == IF Truthy(name) THEN name ELSE "proj"
            g  == check_git_installed(e)
            c2 == c1 \o g.calls
        IN
        IF g.raised # "none"
        THEN [ret |-> Fail(g.raised), fs |-> d, remote |-> rem, calls |-> c2]
        ELSE IF ~g.val
        THEN [ret |-> Fail("no_git"), fs |-> d, remote |-> rem, calls |-> c2]
        ELSE
          LET i  == init_git_repo(d, e)
              c3 == c2 \o i.calls
          IN
          IF i.raised # "none"
          THEN [ret |-> Fail(i.raised), fs |-> i.fs, remote |-> rem, calls |-> c3]
          ELSE IF ~i.val
          THEN [ret |-> Fail("init_failed"), fs |-> i.fs, remote |-> rem,
                calls |-> c3]
          ELSE
            LET c == create_github_repo(token, repo_name, i.fs, e, rem)
            IN [ret    |-> IF c.val THEN Success ELSE Fail("github_failed"),
                fs     |-> c.fs,
                remote |-> c.remote,
                calls  |-> c3 \o c.calls]

\* -------------------------------------------------- server.py operations
\* Project2GitHubMCP.create_repo(directory, name, private): the path, git,
\* the preparer, then the token and the publisher.
create_repo(token, name, d, e, rem) ==
    LET c1 == <<Exists(d)>>
    IN
    IF ~PathExists(d)
    THEN [ret |-> Fail("no_directory"), fs |-> d, remote |-> rem, calls |-> c1]
    ELSE
      LET g  == check_git_installed(e)
          c2 == c1 \o g.calls
      IN
      IF g.raised # "none"
      THEN [ret |-> Fail(g.raised), fs |-> d, remote |-> rem, calls |-> c2]
      ELSE IF ~g.val
      THEN [ret |-> Fail("no_git"), fs |-> d, remote |-> rem, calls |-> c2]
      ELSE
        LET i  == init_git_repo(d, e)
            c3 == c2 \o i.calls
        IN
        IF i.raised # "none"
        THEN [ret |-> Fail(i.raised), fs |-> i.fs, remote |-> rem, calls |-> c3]
        ELSE IF ~i.val
        THEN [ret |-> Fail("init_failed"), fs |-> i.fs, remote |-> rem,
              calls |-> c3]
        ELSE IF ~Truthy(token)
        THEN [ret |-> Fail("no_token"), fs |-> i.fs, remote |-> rem,
              calls |-> c3]
        ELSE
          LET repo_name == IF Truthy(name) THEN name ELSE "proj"
              c == create_github_repo(token, repo_name, i.fs, e, rem)
          IN [ret    |-> IF c.val THEN Success ELSE Fail("github_failed"),
              fs     |-> c.fs,
              remote |-> c.remote,
              calls  |-> c3 \o c.calls]

\* ------------------------------------------ project2github_mcp.py operations
Result(message) == [result |-> [success |-> TRUE, message |-> message]]

Error(code, message) == [error |-> [code |-> code, message |-> message]]

\* dict.update
Update(f, g) ==
    [k \in DOMAIN f \cup DOMAIN g |-> IF k \in DOMAIN g THEN g[k] ELSE f[k]]

\* check_git_installed(): a result when `git --version` runs and exits zero,
\* error -32000 on CalledProcessError and FileNotFoundError; any other
\* exception of the spawn propagates.
check_git_installed_mcp(e) ==
    IF e.spawn = "notfound"
    THEN [val |-> Error(GitMissing, "install_git"), raised |-> "none",
          calls |-> <<Call("version", "FileNotFoundError")>>]
    ELSE IF e.spawn = "oserror"
    THEN [val |-> <<>>, raised |-> "PermissionError",
          calls |-> <<Call("version", "PermissionError")>>]
    ELSE [val |-> IF e.version THEN Result("git_installed")
                  ELSE Error(GitMissing, "install_git"),
          raised |-> "none",
          calls |-> <<Call("version", Exit(e.version))>>]

\* init_git_repo(directory): as in project2github.py, but add and commit run
\* with check=True; CalledProcessError gives error -32001.
init_git_repo_mcp(d, e) ==
    LET se == SpawnError(d, e) IN
    IF se # "none"
    THEN [val |-> <<>>, raised |-> se, fs |-> d,
          calls |-> <<Call("rev_parse", se)>>]
    ELSE
      LET c1 == <<Call("rev_parse", Exit(d.isRepo))>>
          c2 == IF is_git_repo(d) THEN c1
                ELSE Append(c1, Call("init", Exit(e.init)))
          failed == Error(GitFailed, "git_failed")
      IN
      IF ~is_git_repo(d) /\ ~e.init
      THEN [val |-> failed, raised |-> "none", fs |-> d, calls |-> c2]
      ELSE
        LET d1 == [d EXCEPT !.isRepo = TRUE]
            c3 == Append(c2, Call("status", Exit(e.status)))
            c4 == Append(c3, Call("add", Exit(e.add)))
            c5 == Append(c4, Call("commit", Exit(e.commit)))
        IN
        IF ~HasChanges(d1, e)
        THEN [val |-> Result("initialized"), raised |-> "none", fs |-> d1,
              calls |-> c3]
        ELSE IF ~e.add
        THEN [val |-> failed, raised |-> "none", fs |-> d1, calls |-> c4]
        ELSE IF ~e.commit
        THEN [val |-> failed, raised |-> "none", fs |-> d1, calls |-> c5]
        ELSE [val |-> Result("initialized"), raised |-> "none",
              fs |-> Committed(d1, TRUE, TRUE), calls |-> c5]

\* create_github_repo(token, repo_name, directory, private): Github(token),
\* get_user, create_repo, then remote add and push, both with check=True.
\* Every exception is caught and gives error -32002.
create_github_repo_mcp(token, repo_name, d, e, rem) ==
    LET c2 == <<Call("Github", "ok"),
                Call("get_user", IF UserOk(token, e) THEN "ok" ELSE "error")>>
        failed == Error(GithubFailed, "github_failed")
    IN
    IF ~UserOk(token, e)
    THEN [val |-> failed, fs |-> d, remote |-> rem, calls |-> c2]
    ELSE IF ~CreateOk(repo_name, rem, e)
    THEN [val |-> failed, fs |-> d, remote |-> rem,
          calls |-> Append(c2, Call("create_repo", "error"))]
    ELSE
      LET c3   == Append(c2, Call("create_repo", "ok"))
          rem1 == rem \cup {repo_name}
          se   == SpawnError(d, e)
      IN
      IF se # "none"
      THEN [val |-> failed, fs |-> d, remote |-> rem1,
            calls |-> Append(c3, Call("remote_add", se))]
      ELSE IF ~RemoteAddOk(d, e)
      THEN [val |-> failed, fs |-> d, remote |-> rem1,
            calls |-> Append(c3, Call("remote_add", "nonzero"))]
      ELSE
        LET d1 == [d EXCEPT !.origin = TRUE]
            c5 == c3 \o <<Call("remote_add", "zero"),
                          Call("push", Exit(PushOk(d1, e)))>>
        IN [val |-> IF PushOk(d1, e) THEN Result("repo_created") ELSE failed,
            fs |-> d1, remote |-> rem1, calls |-> c5]

\* dict.get(key): None for a missing key and for a JSON null.
Get(v) == IF v \in {"absent", "null"} THEN None ELSE v

\* The response is built without the protocol version.
RespondNoVersion(id, body) == Update([id |-> id], body)

Respond(id, body) == Update([jsonrpc |-> "2.0", id |-> id], body)

Internal == Respond(None, Error(InternalError, "internal_error"))

\* handle_command(command), after json.loads gave a dict: the protocol
\* version, the method, then the method's branch.  A line is given by what
\* json.loads makes of it: kind "badjson" raises JSONDecodeError; "nonstd"
\* (NaN, Infinity) and "nonobject" (a number, string, list, null) parse to a
\* value that is no dict; "object" parses to a dict with the members
\* jsonrpc, id, method and params, each possibly absent.  params is given by
\* its shape and, for an object, its members directory, token, repo_name.
Dispatch(line, d, e, rem) ==
    LET quiet(resp) == [resp |-> resp, fs |-> d, remote |-> rem, calls |-> <<>>]
        cmd_id == Get(line.id)
        method == Get(line.method)
        params == line.params
    IN
    IF line.jsonrpc # "2.0"
    THEN quiet(Respond(cmd_id, Error(InvalidRequest, "not_jsonrpc_2")))
    ELSE IF ~Truthy(method)
    THEN quiet(Respond(cmd_id, Error(InvalidRequest, "no_method")))
    ELSE IF method = "check_git"
    THEN LET g == check_git_installed_mcp(e) IN
         [resp   |-> IF g.raised # "none" THEN Internal ELSE Respond(cmd_id, g.val),
          fs     |-> d,
          remote |-> rem,
          calls  |-> g.calls]
    ELSE IF method = "init_repo"
    THEN IF params.shape \in {"null", "number", "string", "list"}
         THEN quiet(Internal)
         ELSE IF ~Truthy(Get(params.directory))
         THEN quiet(Respond(cmd_id, Error(InvalidParams, "missing_directory")))
         ELSE IF ~PathExists(d)
         THEN [resp   |-> Respond(cmd_id, Error(InvalidParams, "no_directory")),
               fs     |-> d,
               remote |-> rem,
               calls  |-> <<Exists(d)>>]
         ELSE LET i == init_git_repo_mcp(d, e) IN
              [resp   |-> IF i.raised # "none" THEN Internal
                          ELSE Respond(cmd_id, i.val),
               fs     |-> i.fs,
               remote |-> rem,
               calls  |-> <<Exists(d)>> \o i.calls]
    ELSE IF method = "create_repo"
    THEN IF params.shape \in {"null", "number"}
         THEN quiet(Internal)
         ELSE IF \/ params.shape \in {"string", "list"}
                 \/ "absent" \in {params.token, params.directory, params.repo_name}
         THEN quiet(Respond(cmd_id, Error(InvalidParams, "missing_params")))
         ELSE IF params.directory = "null"
         THEN quiet(Internal)
         ELSE
           LET dir == IF params.directory = "" THEN Cwd ELSE d IN
           IF ~PathExists(dir)
           THEN [resp   |-> Respond(cmd_id, Error(InvalidParams, "no_directory")),
                 fs     |-> d,
                 remote |-> rem,
                 calls  |-> <<Exists(dir)>>]
           ELSE
             LET c == create_github_repo_mcp(params.token, params.repo_name,
                                             dir, e, rem)
             IN [resp   |-> Respond(cmd_id, c.val),
                 fs     |-> IF params.directory = "" THEN d ELSE c.fs,
                 remote |-> c.remote,
                 calls  |-> <<Exists(dir)>> \o c.calls]
    ELSE quiet(Respond(cmd_id, Error(MethodNotFound, "method_not_found")))

\* JSONDecodeError is not told apart from the other exceptions.
handle_command_NoParseError(line, d, e, rem) ==
    IF line.kind # "object"
    THEN [resp |-> Internal, fs |-> d, remote |-> rem, calls |-> <<>>]
    ELSE Dispatch(line, d, e, rem)

\* handle_command(command): JSONDecodeError gives -32700, any other
\* exception, as of a parsed value that is no dict, gives -32603.
handle_command(line, d, e, rem) ==
    IF line.kind = "badjson"
    THEN [resp |-> Respond(None, Error(ParseError, "parse_error")),
          fs |-> d, remote |-> rem, calls |-> <<>>]
    ELSE IF line.kind # "object"
    THEN [resp |-> Internal, fs |-> d, remote |-> rem, calls |-> <<>>]
    ELSE Dispatch(line, d, e, rem)

\* ------------------------------------------------------------ the system
Tokens == {"unset", "", "bad", "good"}

Names == {None, "a"}

Kinds == {"missing", "file", "dir"}

Ids == {"absent", "1", "2"}

Params(shape) ==
    [shape |-> shape, directory |-> "absent", token |-> "absent",
     repo_name |-> "absent"]

NonObjectParams == {Params(s) : s \in {"null", "number", "string", "list"}}

InitParams ==
    {Params("absent")} \cup NonObjectParams \cup
    {[Params("object") EXCEPT !.directory = dv] :
        dv \in {"absent", "null", "", "path"}}

FullParams == [shape |-> "object", directory |-> "path", token |-> "good",
               repo_name |-> "a"]

CreateParams ==
    {Params("absent"), Params("object")} \cup NonObjectParams
    \cup {[FullParams EXCEPT !.directory = "absent"],
          [FullParams EXCEPT !.token = "absent"],
          [FullParams EXCEPT !.repo_name = "absent"]}
    \cup [shape : {"object"}, directory : {"null", "", "path"},
          token : {"", "good"}, repo_name : {"", "a"}]

Line(kind, jsonrpc, id, method, params) ==
    [kind |-> kind, jsonrpc |-> jsonrpc, id |-> id, method |-> method,
     params |-> params]

\* The input lines: unparsable and non-object lines, requests of another
\* protocol version, requests without or with an unknown method, and the
\* three methods with every shape of params.
Lines ==
    {Line(k, "absent", "absent", "absent", Params("absent")) :
        k \in {"badjson", "nonstd", "nonobject"}}
    \cup {Line("object", v, "1", "check_git", Params("absent")) :
            v \in {"absent", "1.0"}}
    \cup {Line("object", "2.0", id, m, Params("absent")) :
            id \in Ids, m \in {"absent", "null", "", "list_repos"}}
    \cup {Line("object", "2.0", "1", "list_repos", Params("list"))}
    \cup {Line("object", "2.0", id, "check_git", Params("object")) : id \in Ids}
    \cup {Line("object", "2.0", id, "init_repo", ps) :
            id \in {"1", "2"}, ps \in InitParams}
    \cup {Line("object", "2.0", "1", "create_repo", ps) : ps \in CreateParams}

\* The environments that matter to the line's method.
LineEnvs(line, d) ==
    IF line.kind # "object" \/ line.jsonrpc # "2.0" THEN {DefaultEnv}
    ELSE IF line.method = "check_git" THEN GitEnvs \cup {DefaultEnv}
    ELSE IF line.method = "init_repo" /\ line.params.directory = "path"
    THEN GitEnvs \cup PrepEnvs(d)
    ELSE IF line.method = "create_repo" /\ line.params.directory \in {"", "path"}
    THEN GitEnvs \cup PubEnvs
    ELSE {DefaultEnv}

Init ==
    /\ fs \in {d \in [kind : Kinds, isRepo : {FALSE}, dirty : BOOLEAN,
                      commits : {0}, origin : {FALSE}] :
                 d.kind # "dir" => ~d.dirty}
    /\ remote = {}
    /\ last = [op |-> "none", input |-> <<>>, before |-> fs, calls |-> <<>>,
               ret |-> <<>>]
    /\ stdin = <<>> /\ read = <<>> /\ stdout = <<>> /\ pc = "idle"

\* The tool / CLI front end of project2github.py handles one request.
UploadToGithub ==
    \E token \in Tokens, name \in Names :
     \E e \in IF Truthy(token) THEN RunEnvs(fs) ELSE {DefaultEnv} :
      LET r == upload_to_github(token, name, fs, e, remote) IN
      /\ r.fs.commits <= MaxCommits
      /\ fs' = r.fs
      /\ remote' = r.remote
      /\ last' = [op |-> "upload", input |-> [token |-> token, name |-> name],
                  before |-> fs, calls |-> r.calls, ret |-> r.ret]
      /\ UNCHANGED mainVars

\* The registered tool of server.py handles one request.
ServerCreateRepo ==
    \E token \in Tokens, name \in Names :
     \E e \in IF Truthy(token) THEN RunEnvs(fs) ELSE GitEnvs \cup PrepEnvs(fs) :
      LET r == create_repo(token, name, fs, e, remote) IN
      /\ r.fs.commits <= MaxCommits
      /\ fs' = r.fs
      /\ remote' = r.remote
      /\ last' = [op |-> "server", input |-> [token |-> token, name |-> name],
                  before |-> fs, calls |-> r.calls, ret |-> r.ret]
      /\ UNCHANGED mainVars

\* The line-protocol server handles one input line.
HandleCommand ==
    \E line \in Lines :
      \E e \in LineEnvs(line, fs) :
        LET r == handle_command(line, fs, e, remote) IN
        /\ r.fs.commits <= MaxCommits
        /\ fs' = r.fs
        /\ remote' = r.remote
        /\ last' = [op |-> "line", input |-> line, before |-> fs,
                    calls |-> r.calls, ret |-> r.resp]
        /\ UNCHANGED mainVars

\* The user changes files of the directory between two requests.
EditFiles ==
    /\ fs.kind = "dir"
    /\ ~fs.dirty
    /\ fs' = [fs EXCEPT !.dirty = TRUE]
    /\ remote' = remote
    /\ last' = [op |-> "edit", input |-> <<>>, before |-> fs, calls |-> <<>>,
                ret |-> <<>>]
    /\ UNCHANGED mainVars

Next ==
    \/ UploadToGithub
    \/ ServerCreateRepo
    \/ HandleCommand
    \/ EditFiles

Spec == Init /\ [][Next]_vars

\* ------------------------------------------- project2github_mcp.py: main
\* The empty line: input() returns "".
EmptyLine == Line("empty", "absent", "absent", "absent", Params("absent"))

\* The lines main is fed: an empty line, an unparsable line, a line that is
\* JSON but no object, and requests for check_git, an unknown method,
\* init_repo and create_repo.
MainLines ==
    {EmptyLine,
     Line("badjson", "absent", "absent", "absent", Params("absent")),
     Line("nonobject", "absent", "absent", "absent", Params("absent")),
     Line("object", "2.0", "1", "check_git", Params("object")),
     Line("object", "2.0", "2", "list_repos", Params("absent")),
     Line("object", "2.0", "2", "init_repo",
          [Params("object") EXCEPT !.directory = "path"]),
     Line("object", "2.0", "1", "create_repo", FullParams)}

\* The object main prints before its loop.
Banner ==
    [jsonrpc |-> "2.0", id |-> "init",
     result |-> [success |-> TRUE, message |-> "started"]]

InitMain ==
    /\ fs \in {d \in [kind : Kinds, isRepo : {FALSE}, dirty : BOOLEAN,
                      commits : {0}, origin : {FALSE}] :
                 d.kind # "dir" => ~d.dirty}
    /\ remote = {}
    /\ last = [op |-> "none", input |-> <<>>, before |-> fs, calls |-> <<>>,
               ret |-> <<>>]
    /\ stdin \in UNION {[1..n -> MainLines] : n \in 0..MaxLines}
    /\ read = <<>>
    /\ stdout = <<>>
    /\ pc = "start"

\* main, before the loop: the start-up object is printed and flushed.
MainStart ==
    /\ pc = "start"
    /\ stdout' = Append(stdout, Banner)
    /\ pc' = "read"
    /\ UNCHANGED <<fs, remote, last, stdin, read>>

\* command = input(): EOFError at the end of the input ends the loop; an
\* empty command is skipped; any other command goes to handle_command.
MainRead ==
    /\ pc = "read"
    /\ IF stdin = <<>>
       THEN /\ pc' = "done"
            /\ UNCHANGED <<stdin, read>>
       ELSE /\ stdin' = Tail(stdin)
            /\ read' = Append(read, Head(stdin))
            /\ pc' = IF Head(stdin) = EmptyLine THEN "read" ELSE "handle"
    /\ UNCHANGED <<fs, remote, last, stdout>>

\* The loop ends after an error response.
MainHandle_BreakOnError ==
    /\ pc = "handle"
    /\ \E e \in LineEnvs(read[Len(read)], fs) :
         LET line == read[Len(read)]
             r    == handle_command(line, fs, e, remote)
         IN /\ fs' = r.fs
            /\ remote' = r.remote
            /\ last' = [op |-> "line", input |-> line, before |-> fs,
                        calls |-> r.calls, ret |-> r.resp]
            /\ stdout' = Append(stdout, r.resp)
            /\ pc' = IF "error" \in DOMAIN r.resp THEN "done" ELSE "read"
    /\ UNCHANGED <<stdin, read>>

\* result = handle_command(command); print(json.dumps(result)); flush.
\* handle_command catches every exception itself, so the handler of the loop
\* is reached only when a stream fails.
MainHandle ==
    /\ pc = "handle"
    /\ \E e \in LineEnvs(read[Len(read)], fs) :
         LET line == read[Len(read)]
             r    == handle_command(line, fs, e, remote)
         IN /\ fs' = r.fs
            /\ remote' = r.remote
            /\ last' = [op |-> "line", input |-> line, before |-> fs,
                        calls |-> r.calls, ret |-> r.resp]
            /\ stdout' = Append(stdout, r.resp)
    /\ pc' = "read"
    /\ UNCHANGED <<stdin, read>>

NextMain ==
    \/ MainStart
    \/ MainRead
    \/ MainHandle

SpecMain == InitMain /\ [][NextMain]_vars

\* ================================================================ claims
ApiCmds == {"Github", "get_user", "create_repo"}

GitCmds == {"version", "rev_parse", "init", "status", "add", "commit",
            "remote_add", "push"}

PrepCmds == {"init", "status", "add", "commit"}

Made == Cmds(last.calls)

IsPipeline == last.op \in {"upload", "server"}

IsRequest(method) ==
    /\ last.op = "line"
    /\ last.input.kind = "object"
    /\ last.input.jsonrpc = "2.0"
    /\ last.input.method = method

IsError == "error" \in DOMAIN last.ret

ErrorCode(code) == IsError /\ last.ret.error.code = code

\* C1: with GITHUB_TOKEN unset or empty, upload_to_github and
\* Project2GitHubMCP.create_repo return success = false, and no hosting-API
\* call (Github, get_user, create_repo) and no git push was attempted.
C1_NoTokenNoNetwork ==
    (IsPipeline /\ last.input.token \in {"unset", ""})
        => /\ last.ret.success = FALSE
           /\ Made \cap (ApiCmds \cup {"push"}) = {}

\* C1 happens: server.py prepared the working tree, committed, and only then
\* found the token missing.
C1_Witness ==
    /\ last.op = "server"
    /\ last.input.token = "unset"
    /\ Call("commit", "zero") \in {last.calls[i] : i \in 1..Len(last.calls)}
    /\ last.ret = Fail("no_token")

\* C2: for a directory path that does not exist, every front end returns
\* failure without any git invocation and without any hosting-API call.
C2_NoDirectoryNoCalls ==
    /\ (IsPipeline /\ last.before.kind = "missing")
          => /\ last.ret.success = FALSE
             /\ Made \cap (GitCmds \cup ApiCmds) = {}
    /\ ((IsRequest("init_repo") \/ IsRequest("create_repo"))
         /\ last.input.params.directory = "path"
         /\ last.before.kind = "missing")
          => /\ IsError
             /\ Made \cap (GitCmds \cup ApiCmds) = {}

\* C2 happens: a complete create_repo request for a missing path is answered
\* with the missing-directory error after the existence check.
C2_Witness ==
    /\ IsRequest("create_repo")
    /\ last.input.params = FullParams
    /\ last.before.kind = "missing"
    /\ last.calls = <<Call("exists", "false")>>
    /\ ErrorCode(-32602)

KnownMethods == {"check_git", "init_repo", "create_repo"}

IsLine(kind) == last.op = "line" /\ last.input.kind = kind

IsJsonRpc2 == IsLine("object") /\ last.input.jsonrpc = "2.0"

NoPipelineCall == Made \cap (GitCmds \cup ApiCmds) = {}

\* C3 as stated: every request with a method name other than check_git,
\* init_repo and create_repo is answered with error -32601, and every line
\* that is not valid JSON with error -32700 and id null.
C3_AsStated ==
    /\ (IsJsonRpc2 /\ last.input.method \notin KnownMethods \cup {"absent", "null"})
          => ErrorCode(-32601)
    /\ (IsLine("badjson") \/ IsLine("nonstd"))
          => (ErrorCode(-32700) /\ last.ret.id = None)

\* C3 (amended): a line that json.loads parses to a JSON-RPC 2.0 object with
\* a non-empty method name other than check_git, init_repo and create_repo
\* is answered with error -32601; a line json.loads rejects with
\* JSONDecodeError is answered with error -32700 and id null.
C3_UnknownMethodAndParseError ==
    /\ (IsJsonRpc2 /\ last.input.method \notin KnownMethods \cup {"absent", "null", ""})
          => ErrorCode(-32601)
    /\ IsLine("badjson") => (ErrorCode(-32700) /\ last.ret.id = None)

\* C3 happens: a request for the unknown method list_repos was answered.
C3_Witness ==
    /\ IsJsonRpc2
    /\ last.input.method = "list_repos"
    /\ last.input.id = "2"
    /\ last.ret = Respond("2", Error(-32601, "method_not_found"))

\* C4: a check_git request with an id is answered with that id and either a
\* result with success = true or an error with code -32000, whatever the
\* outcome of the git version query.
C4_CheckGitAnswer ==
    (IsRequest("check_git") /\ last.input.id \in {"1", "2"})
        => /\ last.ret.id = last.input.id
           /\ \/ ("result" \in DOMAIN last.ret /\ last.ret.result.success = TRUE)
              \/ ErrorCode(-32000)

Lacks(v) == v \in {"absent", "null", ""}

\* C5: an init_repo request lacking directory, or a create_repo request
\* lacking any of token, directory, repo_name, is answered with error -32602
\* and the request's id, and neither init_git_repo nor create_github_repo
\* runs; for params absent, empty, null, no object, or with a required
\* member null or empty.
C5_MissingParams ==
    LET p == last.input.params IN
    (\/ IsRequest("init_repo") /\ Lacks(p.directory)
     \/ IsRequest("create_repo")
          /\ (Lacks(p.token) \/ Lacks(p.directory) \/ Lacks(p.repo_name)))
        => /\ ErrorCode(-32602)
           /\ last.ret.id = Get(last.input.id)
           /\ NoPipelineCall

\* C6: every response of handle_command has jsonrpc "2.0", an id, and
\* exactly one of result and error; an error has a code and a message.
C6_Envelope ==
    last.op = "line" =>
        LET r == last.ret IN
        /\ {"jsonrpc", "id"} \subseteq DOMAIN r
        /\ r.jsonrpc = "2.0"
        /\ ("result" \in DOMAIN r) # ("error" \in DOMAIN r)
        /\ DOMAIN r \subseteq {"jsonrpc", "id", "result", "error"}
        /\ IsError => {"code", "message"} \subseteq DOMAIN r.error

\* C6 happens: a create_repo request that published gets a result.
C6_Witness ==
    /\ IsRequest("create_repo")
    /\ "result" \in DOMAIN last.ret
    /\ last.ret.id = "1"
    /\ Call("push", "zero") \in {last.calls[i] : i \in 1..Len(last.calls)}

\* The preparer ran in the operation l.
PrepRan(l) ==
    /\ l.op \in {"upload", "server", "line"}
    /\ "rev_parse" \in Cmds(l.calls)

\* The preparer ran on a directory that was no working tree and held
\* uncommitted files.
FirstRun(l) ==
    /\ PrepRan(l)
    /\ l.before.kind = "dir" /\ ~l.before.isRepo /\ l.before.dirty

\* Every git command of the preparer ran and exited zero (rev-parse answers
\* with its exit status).
ZeroExits(l) ==
    \A i \in 1..Len(l.calls) :
        /\ l.calls[i].cmd \in PrepCmds => l.calls[i].out = "zero"
        /\ l.calls[i].cmd = "rev_parse" => l.calls[i].out \in {"zero", "nonzero"}

NoPrepAction(l) == Cmds(l.calls) \cap {"init", "add", "commit"} = {}

CleanTreeUntouched ==
    (PrepRan(last') /\ last'.before.isRepo /\ ~last'.before.dirty)
        => /\ Cmds(last'.calls) \cap {"add", "commit"} = {}
           /\ fs'.commits = last'.before.commits

C8_Ordering ==
    LET c == last.calls IN
    \A i \in 1..Len(c) :
        /\ c[i].cmd \in ApiCmds
              => \E j \in 1..(i - 1) : c[j] = Call("exists", "true")
        /\ c[i].cmd \in {"remote_add", "push"}
              => \E j \in 1..(i - 1) : c[j] = Call("create_repo", "ok")
        /\ c[i] = Call("create_repo", "error")
              => \A k \in (i + 1)..Len(c) : c[k].cmd \notin {"remote_add", "push"}

\* C8 happens: upload_to_github pushed after it created the repository.
C8_Witness ==
    /\ last.op = "upload"
    /\ Len(last.calls) > 2
    /\ last.calls[1] = Call("exists", "true")
    /\ last.calls[Len(last.calls)] = Call("push", "zero")
    /\ last.calls[Len(last.calls) - 2] = Call("create_repo", "ok")

\* C9: for a path that exists but is no directory, every front end returns
\* failure and creates no remote repository.
C9_NotADirectory ==
    /\ (IsPipeline /\ last.before.kind = "file")
          => /\ last.ret.success = FALSE
             /\ Call("create_repo", "ok") \notin {last.calls[i] : i \in 1..Len(last.calls)}
    /\ (IsRequest("create_repo") /\ last.input.params.directory = "path"
         /\ last.before.kind = "file")
          => /\ IsError
             /\ Call("create_repo", "ok") \notin {last.calls[i] : i \in 1..Len(last.calls)}

\* C10: a non-zero exit of init, status, add or commit makes the preparer
\* return failure, and the pipeline stops: no hosting-API call, no remote
\* add and no push follow.
C10_GitFailureIsFatal ==
    LET nonzero == \E i \in 1..Len(last.calls) :
                      /\ last.calls[i].cmd \in PrepCmds
                      /\ last.calls[i].out = "nonzero"
    IN
    /\ (IsPipeline /\ nonzero)
          => /\ last.ret.success = FALSE
             /\ Made \cap (ApiCmds \cup {"remote_add", "push"}) = {}
    /\ (IsRequest("init_repo") /\ nonzero) => IsError

Trace(l) == {l.calls[i] : i \in 1..Len(l.calls)}

\* The operation l returned a failure: success = false, or an error response.
Failed(l) ==
    IF l.op = "line" THEN "error" \in DOMAIN l.ret ELSE l.ret.success = FALSE

\* The publisher ran in l on the target directory (not on the working
\* directory of the process) and got as far as remote add.
PublishedTarget(l) ==
    /\ l.op \in {"upload", "server", "line"}
    /\ "remote_add" \in Cmds(l.calls)
    /\ l.op = "line" => l.input.params.directory = "path"

\* C11: when the working tree already has a remote named origin, remote add
\* fails, the publisher returns failure and does not push to that origin.
C11_ExistingOriginFails ==
    (PublishedTarget(last) /\ last.before.kind = "dir" /\ last.before.origin)
        => /\ Call("remote_add", "nonzero") \in Trace(last)
           /\ Failed(last)
           /\ "push" \notin Made

\* The name of the repository the operation l asks the hosting service for.
RequestedName(l) ==
    IF l.op = "line" THEN l.input.params.repo_name
    ELSE IF l.input.name = None THEN "proj" ELSE l.input.name

\* C13: a repository, once created, exists when the publisher returns and
\* ever after, no delete call is issued, and a failure of remote add or push
\* after the creation is reported as failure.
C13_NoCompensation ==
    [][/\ remote \subseteq remote'
       /\ Call("create_repo", "ok") \in Trace(last')
             => /\ RequestedName(last') \in remote'
                /\ Cmds(last'.calls) \subseteq GitCmds \cup ApiCmds \cup {"exists"}
                /\ (\E c \in Trace(last') :
                       c.cmd \in {"remote_add", "push"} /\ c.out # "zero")
                      => Failed(last')]_vars

\* C14: a success result is returned only if the repository was created and
\* remote add and push both exited zero.
C14_SuccessMeansPublished ==
    (/\ last.op \in {"upload", "server"} \/ IsRequest("create_repo")
     /\ ~Failed(last))
        => /\ Call("create_repo", "ok") \in Trace(last)
           /\ Call("remote_add", "zero") \in Trace(last)
           /\ Call("push", "zero") \in Trace(last)

NonEmpty(line) == line # EmptyLine

\* The lines main is through with: all it read, but the one in its hands.
Handled == IF pc = "handle" THEN SubSeq(read, 1, Len(read) - 1) ELSE read

\* The response resp answers the line: it is one result or one error; a
\* result goes to a known method and carries the request's id; an error
\* carries the request's id, or id null with a parse or internal error; an
\* unparsable line gets the parse error and an unknown method error -32601.
Answers(line, resp) ==
    /\ {"jsonrpc", "id"} \subseteq DOMAIN resp
    /\ ("result" \in DOMAIN resp) # ("error" \in DOMAIN resp)
    /\ "result" \in DOMAIN resp =>
           /\ line.kind = "object"
           /\ line.method \in KnownMethods
           /\ resp.id = line.id
    /\ "error" \in DOMAIN resp =>
           \/ resp.id = line.id
           \/ resp.id = None /\ resp.error.code \in {-32700, -32603}
    /\ line.kind = "badjson" => resp.error.code = -32700
    /\ line.kind = "object" /\ line.method \notin KnownMethods =>
           resp.error.code = -32601

\* C12: main handles one request at a time: every non-empty line read has
\* exactly one response, written before the next line is read and in input
\* order; an error response does not end the loop, which ends exactly at
\* the end of the input.
C12_OneResponsePerLine ==
    pc # "idle" =>
        LET asked == SelectSeq(Handled, NonEmpty) IN
        /\ pc # "start" => Len(stdout) = 1 + Len(asked)
        /\ \A k \in 1..Len(asked) :
               k + 1 <= Len(stdout) => Answers(asked[k], stdout[k + 1])
        /\ pc = "done" => stdin = <<>>
        /\ pc # "done" => ENABLED NextMain

\* C12 happens: main read an unparsable line and a check_git request,
\* answered the first with a parse error and the second with a result, and
\* ended at the end of the input.
C12_Witness ==
    /\ pc = "done"
    /\ Len(read) = 2
    /\ read[1].kind = "badjson"
    /\ read[2].method = "check_git"
    /\ Len(stdout) = 3
    /\ stdout[2] = Respond(None, Error(-32700, "parse_error"))
    /\ stdout[3] = Respond("1", Result("git_installed"))

====
